---- MODULE Spec2Model ----
(***************************************************************************)
(* The CSS parsing entry points of LibWeb (CSS/Parser/Helpers.cpp): the    *)
(* lazily built internal CSS realm, the CSS log written by                 *)
(* parse_css_stylesheet, and the parse_* functions that hand a text to a   *)
(* freshly created CSS::Parser::Parser.                                    *)
(*                                                                         *)
(* Texts, file names and file contents are sequences of bytes (0..255).    *)
(* The grammar engine, the URL serializer, Core::File and                  *)
(* adapt_nested_relative_selector_list live outside Helpers.cpp: the       *)
(* parser and the adapter are stubs whose answer is drawn from a small set,*)
(* the others are modelled by what their callers here rely on.             *)
(***************************************************************************)
EXTENDS Integers, Sequences, FiniteSets, TLC

VARIABLES
    realm,              \* static GC::Root<JS::Realm> realm (NoRealm when null)
    window,             \* static GC::Root<HTML::Window> window
    execution_context,  \* static OwnPtr<JS::ExecutionContext> execution_context
    host_defined,       \* realm ids on which set_host_defined has been called
    constructed,        \* number of realms create_a_new_javascript_realm built
    files,              \* the file system: file name -> content
    calls,              \* entry-point calls made by the main context so far
    last,               \* what the most recent entry-point call did and returned
    paired,             \* the call just made repeats the one before it:
                        \* internal_css_realm again, or a stylesheet parse of
                        \* the same input whose logging went differently
    pc,                 \* per execution context: position in internal_css_realm
    ret                 \* per execution context: handle its last call returned

vars == <<realm, window, execution_context, host_defined, constructed,
          files, calls, last, paired, pc, ret>>

realmVars == <<realm, window, execution_context, host_defined, constructed>>

-----------------------------------------------------------------------------
(* Bounds of the model *)

\* entry-point calls the main context makes in one run
MaxCalls == 2
\* execution contexts racing through internal_css_realm
NumContexts == 2

-----------------------------------------------------------------------------
(* Values *)

\* a null GC::Root / OwnPtr
NoRealm == 0

IsPrefix(s, t) == Len(s) <= Len(t) /\ SubSeq(t, 1, Len(s)) = s

\* ::URL::URL as the parts its serialization is built from
Url(scheme, host, path, query) ==
    [scheme |-> scheme, host |-> host, path |-> path, query |-> query]

\* URL::to_string(): scheme "://" host path [ "?" query ]
url_to_string(url) ==
    url.scheme \o <<58, 47, 47>> \o url.host \o url.path
        \o (IF url.query = <<>> THEN <<>> ELSE <<63>> \o url.query)

\* http://a/b:c?d
UrlABCD == Url(<<104, 116, 116, 112>>, <<97>>, <<47, 98, 58, 99>>, <<100>>)

\* Optional<::URL::URL>
NoLocation == [has_value |-> FALSE]
Location(url) == [has_value |-> TRUE, url |-> url]
Locations == {NoLocation, Location(UrlABCD)}

\* StringView inputs, UTF-8 as every caller passes: "", "a", and the two
\* bytes of "e-acute"
Texts == {<<>>, <<97>>, <<195, 169>>}

\* CSS::Parser::ParsingParams: the realm objects are created in
Contexts == {[realm |-> "document"]}

\* Vector<NonnullRefPtr<CSS::MediaQuery>>
MediaQueryLists == {<<>>, <<"screen">>}

\* results: a null pointer, an empty Optional, a vector, an object
Null == [kind |-> "null"]
None == [kind |-> "none"]
Vector(items) == [kind |-> "vector", items |-> items]
Object(what) == [kind |-> "object", what |-> what]
Sheet(r, rules, media, location, source_text) ==
    [kind |-> "sheet", realm |-> r, rules |-> rules, media |-> media,
     location |-> location, source_text |-> source_text]

-----------------------------------------------------------------------------
(* AK::String *)

IsContinuation(c) == c >= 128 /\ c <= 191

\* Utf8View::validate
RECURSIVE Utf8Valid(_)
Utf8Valid(b) ==
    IF b = <<>> THEN TRUE
    ELSE LET c == Head(b)
             n == Len(b)
         IN IF c < 128 THEN Utf8Valid(Tail(b))
            ELSE IF c >= 194 /\ c <= 223
                 THEN /\ n >= 2
                      /\ IsContinuation(b[2])
                      /\ Utf8Valid(SubSeq(b, 3, n))
            ELSE IF c >= 224 /\ c <= 239
                 THEN /\ n >= 3
                      /\ IsContinuation(b[2])
                      /\ IsContinuation(b[3])
                      /\ (c = 224 => b[2] >= 160)
                      /\ (c = 237 => b[2] <= 159)
                      /\ Utf8Valid(SubSeq(b, 4, n))
            ELSE IF c >= 240 /\ c <= 244
                 THEN /\ n >= 4
                      /\ IsContinuation(b[2])
                      /\ IsContinuation(b[3])
                      /\ IsContinuation(b[4])
                      /\ (c = 240 => b[2] >= 144)
                      /\ (c = 244 => b[2] <= 143)
                      /\ Utf8Valid(SubSeq(b, 5, n))
            ELSE FALSE

\* String::from_utf8: an error for invalid UTF-8, else a copy of the bytes
String_from_utf8(bytes) ==
    [is_error |-> ~Utf8Valid(bytes), value |-> bytes]

-----------------------------------------------------------------------------
(* sanitize_filename *)

\* / \ : * ? " < > |
ForbiddenInFilenames == {47, 92, 58, 42, 63, 34, 60, 62, 124}

sanitize_char_slashes_only(ch) == IF ch \in {47, 92} THEN 95 ELSE ch

\* line 52: the characters replaced by '_'
sanitize_char(ch) == IF ch \in ForbiddenInFilenames THEN 95 ELSE ch

sanitize_filename(url_string) ==
    [i \in 1..Len(url_string) |-> sanitize_char(url_string[i])]

-----------------------------------------------------------------------------
(* write_css_to_file *)

\* "{}.csslog"
log_filename(location) ==
    IF location.has_value
    THEN sanitize_filename(url_to_string(location.url))
             \o <<46, 99, 115, 115, 108, 111, 103>>
    ELSE <<105, 110, 108, 105, 110, 101, 46, 99, 115, 115, 108, 111, 103>>

\* "External stylesheet: {}" or "Inline CSS or style tag"
source_description(location) ==
    IF location.has_value
    THEN <<69, 120, 116, 101, 114, 110, 97, 108, 32, 115, 116, 121, 108, 101,
           115, 104, 101, 101, 116, 58, 32>> \o url_to_string(location.url)
    ELSE <<73, 110, 108, 105, 110, 101, 32, 67, 83, 83, 32, 111, 114, 32, 115,
           116, 121, 108, 101, 32, 116, 97, 103>>

\* "/* CSS from: {} */\n/* ==================== */\n\n"
log_header(description) ==
    <<47, 42, 32, 67, 83, 83, 32, 102, 114, 111, 109, 58, 32>>
        \o description
        \o <<32, 42, 47, 10, 47, 42, 32, 61, 61, 61, 61, 61, 61, 61, 61, 61, 61,
             61, 61, 61, 61, 61, 61, 61, 61, 61, 61, 32, 42, 47, 10, 10>>

\* "\n\n"
log_separator == <<10, 10>>

log_open_mode_without_append == {"Write"}

\* Core::File::OpenMode::Write | Core::File::OpenMode::Append
log_open_mode == {"Write", "Append"}

\* Core::File::open for writing: the file is created when absent and keeps
\* its content unless the mode asks for truncation (Write without Append)
File_open(fs, filename, mode) ==
    IF "Append" \in mode /\ filename \in DOMAIN fs THEN fs[filename] ELSE <<>>

\* Stream::write_until_depleted on a file opened for appending: `written`
\* bytes reach the file; fewer than Len(data) means the call returned an error
write_until_depleted(content, data, written) ==
    [content |-> content \o SubSeq(data, 1, written),
     is_error |-> written < Len(data)]

\* how many bytes of `data` a write puts in the file: all of them, or, when
\* it fails on the way, all but the last
Written(data) == {Len(data), Len(data) - 1}

\* the outcome of the logger's I/O: open, then the three writes
LogOutcome(open, header, body, separator) ==
    [open |-> open, header |-> header, body |-> body, separator |-> separator]

NoOutcome == LogOutcome(FALSE, 0, 0, 0)

\* the open and the three writes all succeeded
Succeeded(css, description, o) ==
    /\ o.open
    /\ o.header = Len(log_header(description))
    /\ o.body = Len(css)
    /\ o.separator = Len(log_separator)

LogOutcomes(css, description) ==
    {LogOutcome(FALSE, 0, 0, 0)} \cup
    {LogOutcome(TRUE, h, b, s) :
        h \in Written(log_header(description)), b \in Written(css),
        s \in Written(log_separator)}

write_css_to_file_must(fs, css, description, location, o) ==
    LET filename == log_filename(location)
        opened == File_open(fs, filename, log_open_mode)
        w1 == write_until_depleted(opened, log_header(description), o.header)
        w2 == write_until_depleted(w1.content, css, o.body)
        w3 == write_until_depleted(w2.content, log_separator, o.separator)
    IN [files |-> IF o.open THEN (filename :> w3.content) @@ fs ELSE fs,
        filename |-> filename,
        dbgln |-> o.open,
        crashed |-> ~o.open \/ w1.is_error \/ w2.is_error \/ w3.is_error]

\* write_css_to_file: the file system afterwards, the file name it derived,
\* and whether an error escaped (it never does: every result is discarded)
write_css_to_file(fs, css, description, location, o) ==
    LET filename == log_filename(location)
        opened == File_open(fs, filename, log_open_mode)
        w1 == write_until_depleted(opened, log_header(description), o.header)
        w2 == write_until_depleted(w1.content, css, o.body)
        w3 == write_until_depleted(w2.content, log_separator, o.separator)
    IN [files |-> IF o.open THEN (filename :> w3.content) @@ fs ELSE fs,
        filename |-> filename,
        dbgln |-> o.open,
        crashed |-> FALSE]

-----------------------------------------------------------------------------
(* The record of one entry-point call *)

NoContext == [realm |-> "none"]

\* one parse operation invoked on a parser: its name and its arguments
Op(name, ids, location, media_query_list) ==
    [op |-> name, ids |-> ids, location |-> location,
     media_query_list |-> media_query_list]

\* CSS::Parser::Parser::create(context, text): an instance over (context, text)
Parser_create(context, text) == [context |-> context, text |-> text]

\* a call that has not done anything yet
Call(entry, context, text) ==
    [entry |-> entry, context |-> context, text |-> text,
     location |-> NoLocation, media_query_list |-> <<>>,
     logged |-> FALSE, outcome |-> NoOutcome, filename |-> <<>>,
     dbgln |-> FALSE,
     created |-> <<>>,      \* parser instances constructed, in order
     ops |-> <<>>,          \* parse operations invoked, in order
     adapted |-> <<>>,      \* calls of adapt_nested_relative_selector_list
     answer |-> Null,       \* what the parse operation returned
     result |-> Null,       \* what the entry point returned
     status |-> "returned"] \* "returned", or "aborted" by a failed MUST

NoCall == [Call("none", NoContext, <<>>) EXCEPT !.status = "none"]

\* `if (text.is_empty()) return <empty>;`
ReturnEmpty(call, empty) == [call EXCEPT !.result = empty]

Delegate_with_retry(call, name, ids, answer) ==
    [call EXCEPT !.created = <<Parser_create(call.context, call.text),
                               Parser_create(call.context, call.text)>>,
                 !.ops = <<Op(name, ids, NoLocation, <<>>),
                           Op(name, ids, NoLocation, <<>>)>>,
                 !.answer = answer,
                 !.result = answer]

\* `return Parser::create(context, text).parse_as_x(ids...);`
Delegate(call, name, ids, answer) ==
    [call EXCEPT !.created = <<Parser_create(call.context, call.text)>>,
                 !.ops = <<Op(name, ids, NoLocation, <<>>)>>,
                 !.answer = answer,
                 !.result = answer]

Guarded_without_test(call, empty, name, ids, answer) ==
    Delegate(call, name, ids, answer)

\* entry points that test is_empty() first
Guarded(call, empty, name, ids, answer) ==
    IF call.text = <<>> THEN ReturnEmpty(call, empty)
    ELSE Delegate(call, name, ids, answer)

-----------------------------------------------------------------------------
(* parse_css_stylesheet *)

\* what the stub parser's parse_as_css_stylesheet(location, media_query_list)
\* can return: a sheet of the context's realm over the given media queries
StylesheetAnswers(context, location, media_query_list) ==
    {Sheet(context.realm, <<>>, media_query_list, location, <<>>),
     Sheet(context.realm, <<"rule">>, media_query_list, location, <<122>>)}

\* lines 106-110: the sheet built for empty text
empty_stylesheet(context, location, media_query_list) ==
    Sheet(context.realm, <<>>, <<>>, location, <<>>)

should_log_always(css) == TRUE

\* line 94: `if (!css.is_empty())` guards the logging
should_log(css) == css # <<>>

\* line 114: the source text kept on the parsed sheet
retained_source_text(css) == String_from_utf8(css)

parsed_stylesheet_as_parsed(answer, source_text) == answer

\* lines 112-115: the sheet the parser returned, with its source text set
parsed_stylesheet(answer, source_text) ==
    [answer EXCEPT !.source_text = source_text]

\* the whole call: the file system afterwards and the record of the call
parse_css_stylesheet_call(fs, context, css, location, media_query_list, o, answer) ==
    LET description == source_description(location)
        logged == should_log(css)
        log == IF logged
               THEN write_css_to_file(fs, css, description, location, o)
               ELSE [files |-> fs, filename |-> <<>>, dbgln |-> FALSE,
                     crashed |-> FALSE]
        call == [Call("parse_css_stylesheet", context, css) EXCEPT
                    !.location = location,
                    !.media_query_list = media_query_list,
                    !.logged = logged,
                    !.outcome = IF logged THEN o ELSE NoOutcome,
                    !.filename = log.filename,
                    !.dbgln = log.dbgln]
        text == retained_source_text(css)
        parsing == [call EXCEPT
                    !.created = <<Parser_create(context, css)>>,
                    !.ops = <<Op("parse_as_css_stylesheet", <<>>, location,
                                 media_query_list)>>,
                    !.answer = answer]
    IN [files |-> log.files,
        call |-> IF log.crashed THEN [call EXCEPT !.status = "aborted"]
                 ELSE IF css = <<>>
                 THEN [call EXCEPT !.result =
                          empty_stylesheet(context, location, media_query_list)]
                 ELSE IF text.is_error
                 THEN [parsing EXCEPT !.status = "aborted"]
                 ELSE [parsing EXCEPT !.result =
                          parsed_stylesheet(answer, text.value)]]

\* the inputs of a stylesheet call that are not the logging outcome
Key(call) ==
    <<call.context, call.text, call.location, call.media_query_list, call.answer>>

-----------------------------------------------------------------------------
(* State *)

ExecutionContexts == 1..NumContexts

\* inline.csslog as an earlier run left it ("x"); no other log file yet
InitialFiles ==
    <<105, 110, 108, 105, 110, 101, 46, 99, 115, 115, 108, 111, 103>> :> <<120>>

Init ==
    /\ realm = NoRealm
    /\ window = NoRealm
    /\ execution_context = NoRealm
    /\ host_defined = {}
    /\ constructed = 0
    /\ files = InitialFiles
    /\ calls = 0
    /\ last = NoCall
    /\ paired = FALSE
    /\ pc = [t \in ExecutionContexts |-> "idle"]
    /\ ret = [t \in ExecutionContexts |-> NoRealm]

\* the process is running and the main context may make another call
CanCall == calls < MaxCalls /\ last.status # "aborted"

\* a call of the main context that touches neither the realm nor the files
Return(call) ==
    /\ last' = call
    /\ calls' = calls + 1
    /\ paired' = FALSE
    /\ UNCHANGED <<realmVars, files, pc, ret>>

parse_css_stylesheet ==
    /\ CanCall
    /\ \E context \in Contexts, css \in Texts, location \in Locations,
          media_query_list \in MediaQueryLists :
         \E o \in (IF should_log(css)
                   THEN LogOutcomes(css, source_description(location))
                   ELSE {NoOutcome}),
            answer \in (IF css = <<>> THEN {Null}
                        ELSE StylesheetAnswers(context, location, media_query_list)) :
            \E done \in {parse_css_stylesheet_call(files, context, css, location,
                                                  media_query_list, o, answer)} :
               /\ files' = done.files
               /\ last' = done.call
               /\ calls' = calls + 1
               /\ paired' = /\ last.entry = "parse_css_stylesheet"
                            /\ last.logged /\ done.call.logged
                            /\ Key(last) = Key(done.call)
                            /\ last.outcome # done.call.outcome
               /\ UNCHANGED <<realmVars, pc, ret>>

-----------------------------------------------------------------------------
(* The other entry points.  Each stub answer set holds what the parse      *)
(* operation can return: its empty value and one non-empty value.          *)

PropertyIDs == {"color"}
AtRuleIDs == {"font-face"}
DescriptorIDs == {"src"}

PointerAnswers(what) == {Null, Object(what)}
OptionalAnswers(what) == {None, Object(what)}
VectorAnswers(what) == {Vector(<<>>), Vector(<<what>>)}

parse_css_property_declaration_block ==
    /\ CanCall
    /\ \E context \in Contexts, css \in Texts :
         \E answer \in (IF css = <<>> THEN {Null} ELSE VectorAnswers("declaration")) :
            Return(Guarded(Call("parse_css_property_declaration_block", context, css),
                           Vector(<<>>),
                           "parse_as_property_declaration_block", <<>>, answer))

parse_css_descriptor_declaration_block ==
    /\ CanCall
    /\ \E parsing_params \in Contexts, at_rule_id \in AtRuleIDs, css \in Texts :
         \E answer \in (IF css = <<>> THEN {Null} ELSE VectorAnswers("descriptor")) :
            Return(Guarded(Call("parse_css_descriptor_declaration_block",
                                parsing_params, css),
                           Vector(<<>>),
                           "parse_as_descriptor_declaration_block", <<at_rule_id>>,
                           answer))

parse_css_value ==
    /\ CanCall
    /\ \E context \in Contexts, string \in Texts, property_id \in PropertyIDs :
         \E answer \in (IF string = <<>> THEN {Null} ELSE PointerAnswers("value")) :
            Return(Guarded(Call("parse_css_value", context, string),
                           Null,
                           "parse_as_css_value", <<property_id>>, answer))

parse_css_descriptor ==
    /\ CanCall
    /\ \E parsing_params \in Contexts, at_rule_id \in AtRuleIDs,
          descriptor_id \in DescriptorIDs, string \in Texts :
         \E answer \in (IF string = <<>> THEN {Null} ELSE PointerAnswers("value")) :
            Return(Guarded(Call("parse_css_descriptor", parsing_params, string),
                           Null,
                           "parse_as_descriptor_value", <<at_rule_id, descriptor_id>>,
                           answer))

parse_css_rule ==
    /\ CanCall
    /\ \E context \in Contexts, css_text \in Texts, answer \in PointerAnswers("rule") :
         Return(Delegate(Call("parse_css_rule", context, css_text),
                         "parse_as_css_rule", <<>>, answer))

parse_selector ==
    /\ CanCall
    /\ \E context \in Contexts, selector_text \in Texts,
          answer \in OptionalAnswers("selectors") :
         Return(Delegate(Call("parse_selector", context, selector_text),
                         "parse_as_selector", <<>>, answer))

\* what the external adapt_nested_relative_selector_list can return
AdaptAnswers == {Object("selectors"), Object("nested selectors")}

nested_selector_result_always_adapts(call, maybe_selectors, adapted) ==
    [call EXCEPT !.adapted = <<[argument |-> maybe_selectors,
                                returned |-> adapted]>>,
                 !.result = adapted]

\* lines 160-164: absence is passed on, a selector list goes through the adapter
nested_selector_result(call, maybe_selectors, adapted) ==
    IF maybe_selectors = None THEN [call EXCEPT !.result = None]
    ELSE [call EXCEPT !.adapted = <<[argument |-> maybe_selectors,
                                     returned |-> adapted]>>,
                      !.result = adapted]

parse_selector_for_nested_style_rule ==
    /\ CanCall
    /\ \E context \in Contexts, selector_text \in Texts,
          maybe_selectors \in OptionalAnswers("relative selectors") :
         \E adapted \in (IF maybe_selectors = None THEN {None} ELSE AdaptAnswers) :
            Return(nested_selector_result(
                      Delegate(Call("parse_selector_for_nested_style_rule", context,
                                    selector_text),
                               "parse_as_relative_selector", <<"Standard">>,
                               maybe_selectors),
                      maybe_selectors, adapted))

parse_page_selector_list ==
    /\ CanCall
    /\ \E params \in Contexts, selector_text \in Texts,
          answer \in OptionalAnswers("page selectors") :
         Return(Delegate(Call("parse_page_selector_list", params, selector_text),
                         "parse_as_page_selector_list", <<>>, answer))

parse_pseudo_element_selector ==
    /\ CanCall
    /\ \E context \in Contexts, selector_text \in Texts,
          answer \in OptionalAnswers("pseudo-element selector") :
         Return(Delegate(Call("parse_pseudo_element_selector", context, selector_text),
                         "parse_as_pseudo_element_selector", <<>>, answer))

parse_media_query ==
    /\ CanCall
    /\ \E context \in Contexts, string \in Texts, answer \in PointerAnswers("media query") :
         Return(Delegate(Call("parse_media_query", context, string),
                         "parse_as_media_query", <<>>, answer))

parse_media_query_list ==
    /\ CanCall
    /\ \E context \in Contexts, string \in Texts, answer \in VectorAnswers("media query") :
         Return(Delegate(Call("parse_media_query_list", context, string),
                         "parse_as_media_query_list", <<>>, answer))

parse_css_supports ==
    /\ CanCall
    /\ \E context \in Contexts, string \in Texts :
         \E answer \in (IF string = <<>> THEN {Null} ELSE PointerAnswers("supports")) :
            Return(Guarded(Call("parse_css_supports", context, string),
                           Null,
                           "parse_as_supports", <<>>, answer))

-----------------------------------------------------------------------------
(* internal_css_realm *)

RealmHandle(id) == [kind |-> "realm", id |-> id]

needs_construction_always(r) == TRUE

\* line 28: `if (!realm)`
needs_construction(r) == r = NoRealm

\* lines 29-37: create_a_new_javascript_realm builds realm number `id` with
\* its Window as global object; the execution context holds the realm
create_a_new_javascript_realm(id) == [execution_context |-> id, window |-> id]

\* one whole call made by the main context
internal_css_realm ==
    /\ CanCall
    /\ IF needs_construction(realm)
       THEN LET made == create_a_new_javascript_realm(constructed + 1)
            IN /\ execution_context' = made.execution_context
               /\ window' = made.window
               /\ constructed' = constructed + 1
               /\ realm' = made.execution_context
               /\ host_defined' = host_defined \cup {made.execution_context}
       ELSE UNCHANGED realmVars
    /\ last' = [Call("internal_css_realm", NoContext, <<>>) EXCEPT
                   !.result = RealmHandle(realm')]
    /\ calls' = calls + 1
    /\ paired' = (last.entry = "internal_css_realm")
    /\ UNCHANGED <<files, pc, ret>>

(* The same function entered by several execution contexts, one statement  *)
(* at a time.  Nothing in it synchronises the accesses to the statics, so  *)
(* the statements of different contexts interleave freely.                 *)

mainVars == <<files, calls, last, paired>>

Enter(t) ==
    /\ pc[t] = "idle"
    /\ pc' = [pc EXCEPT ![t] = "check"]
    /\ UNCHANGED <<realmVars, ret, mainVars>>

\* line 28
CheckRealm(t) ==
    /\ pc[t] = "check"
    /\ pc' = [pc EXCEPT ![t] = IF needs_construction(realm) THEN "create" ELSE "return"]
    /\ UNCHANGED <<realmVars, ret, mainVars>>

\* lines 29-37
CreateRealm(t) ==
    /\ pc[t] = "create"
    /\ LET made == create_a_new_javascript_realm(constructed + 1)
       IN /\ execution_context' = made.execution_context
          /\ window' = made.window
    /\ constructed' = constructed + 1
    /\ pc' = [pc EXCEPT ![t] = "assign"]
    /\ UNCHANGED <<realm, host_defined, ret, mainVars>>

\* line 39: `realm = *execution_context->realm;`
AssignRealm(t) ==
    /\ pc[t] = "assign"
    /\ realm' = execution_context
    /\ pc' = [pc EXCEPT ![t] = "host_defined"]
    /\ UNCHANGED <<window, execution_context, host_defined, constructed, ret, mainVars>>

\* lines 40-42
SetHostDefined(t) ==
    /\ pc[t] = "host_defined"
    /\ host_defined' = host_defined \cup {realm}
    /\ pc' = [pc EXCEPT ![t] = "return"]
    /\ UNCHANGED <<realm, window, execution_context, constructed, ret, mainVars>>

\* line 44
ReturnRealm(t) ==
    /\ pc[t] = "return"
    /\ ret' = [ret EXCEPT ![t] = realm]
    /\ pc' = [pc EXCEPT ![t] = "idle"]
    /\ UNCHANGED <<realmVars, mainVars>>

-----------------------------------------------------------------------------
(* Specifications *)

\* one context calling the entry points in any order
Next ==
    \/ internal_css_realm
    \/ parse_css_stylesheet
    \/ parse_css_property_declaration_block
    \/ parse_css_descriptor_declaration_block
    \/ parse_css_value
    \/ parse_css_descriptor
    \/ parse_css_rule
    \/ parse_selector
    \/ parse_selector_for_nested_style_rule
    \/ parse_page_selector_list
    \/ parse_pseudo_element_selector
    \/ parse_media_query
    \/ parse_media_query_list
    \/ parse_css_supports

Spec == Init /\ [][Next]_vars

\* several contexts inside internal_css_realm
NextRace ==
    \E t \in ExecutionContexts :
        \/ Enter(t)
        \/ CheckRealm(t)
        \/ CreateRealm(t)
        \/ AssignRealm(t)
        \/ SetHostDefined(t)
        \/ ReturnRealm(t)

SpecRace == Init /\ [][NextRace]_vars

-----------------------------------------------------------------------------
(* Properties *)

ParseEntries ==
    {"parse_css_stylesheet", "parse_css_property_declaration_block",
     "parse_css_descriptor_declaration_block", "parse_css_value",
     "parse_css_descriptor", "parse_css_rule", "parse_selector",
     "parse_selector_for_nested_style_rule", "parse_page_selector_list",
     "parse_pseudo_element_selector", "parse_media_query",
     "parse_media_query_list", "parse_css_supports"}

\* the step is a call of the main context
IsCall == calls' = calls + 1

(* C1: however the calls of several execution contexts to                  *)
(* internal_css_realm interleave, the realm is constructed at most once    *)
(* and all calls return the same handle.                                   *)
C1_ConstructedOnceForAll ==
    /\ constructed <= 1
    /\ \A t1, t2 \in ExecutionContexts :
         (ret[t1] # NoRealm /\ ret[t2] # NoRealm) => ret[t1] = ret[t2]

(* C2: in a sequence of calls from one context the first call of           *)
(* internal_css_realm constructs the realm, every call returns the cached  *)
(* handle, and once set the realm, its window and its execution context    *)
(* are never cleared, replaced or constructed again.                       *)
C2_RealmSetOnce ==
    [][/\ realm # NoRealm => UNCHANGED realmVars
       /\ (IsCall /\ last'.entry = "internal_css_realm") =>
            /\ realm' # NoRealm
            /\ last'.result = RealmHandle(realm')
            /\ window' = realm' /\ execution_context' = realm'
            /\ host_defined' = {realm'}
            /\ constructed' = 1
            /\ realm = NoRealm => constructed = 0]_vars

C2_Witness ==
    /\ paired
    /\ last.entry = "internal_css_realm"
    /\ last.result = RealmHandle(realm)
    /\ constructed = 1

(* C3: parse_css_stylesheet with empty text returns, for every context,    *)
(* location and media query list, a sheet with no rules, an empty media    *)
(* list and empty source text, constructs no parser and writes no log.     *)
C3_EmptyStylesheet ==
    [][(IsCall /\ last'.entry = "parse_css_stylesheet" /\ last'.text = <<>>) =>
          /\ last'.status = "returned"
          /\ last'.result.kind = "sheet"
          /\ last'.result.rules = <<>>
          /\ last'.result.media = <<>>
          /\ last'.result.source_text = <<>>
          /\ last'.created = <<>> /\ last'.ops = <<>>
          /\ ~last'.logged /\ ~last'.dbgln
          /\ files' = files]_vars

C3_Witness ==
    /\ last.entry = "parse_css_stylesheet"
    /\ last.text = <<>>
    /\ last.location.has_value
    /\ last.media_query_list # <<>>
    /\ last.status = "returned"

(* C4: for non-empty text parse_css_stylesheet returns a sheet whose       *)
(* source text is the input, byte for byte, whatever the parser returned   *)
(* and however the logging went.                                           *)
C4_SourceTextRetained ==
    (last.entry = "parse_css_stylesheet" /\ last.text # <<>>) =>
        /\ last.status = "returned"
        /\ last.result.kind = "sheet"
        /\ last.result.source_text = last.text

C4_Witness ==
    /\ last.entry = "parse_css_stylesheet"
    /\ last.text = <<195, 169>>
    /\ last.answer.source_text = <<122>>
    /\ last.logged /\ ~last.outcome.open
    /\ last.result.source_text = <<195, 169>>

C5_TestsForEmpty ==
    {"parse_css_stylesheet", "parse_css_property_declaration_block",
     "parse_css_descriptor_declaration_block", "parse_css_value",
     "parse_css_descriptor", "parse_css_supports"}

C5_EmptyResult(call) ==
    CASE call.entry = "parse_css_stylesheet" ->
            Sheet(call.context.realm, <<>>, <<>>, call.location, <<>>)
      [] call.entry \in {"parse_css_property_declaration_block",
                         "parse_css_descriptor_declaration_block"} -> Vector(<<>>)
      [] OTHER -> Null

C6_Block(description, css) ==
    <<47, 42, 32, 67, 83, 83, 32, 102, 114, 111, 109, 58, 32>> \o description
        \o <<32, 42, 47, 10>>
        \o <<47, 42, 32>> \o [i \in 1..20 |-> 61] \o <<32, 42, 47, 10>>
        \o <<10>> \o css \o <<10, 10>>

(* C6: the log is append-only.  No step shortens or rewrites a file: what  *)
(* a file held stays a prefix of what it holds.  A logger call whose open  *)
(* and writes succeed leaves in the file it names the previous content     *)
(* followed by one record (header, blank line, css, blank line), and       *)
(* leaves every other file alone.                                          *)
C6_AppendOnly ==
    [][/\ \A f \in DOMAIN files :
            f \in DOMAIN files' /\ IsPrefix(files[f], files'[f])
       /\ (/\ IsCall
           /\ last'.logged
           /\ Succeeded(last'.text, source_description(last'.location),
                        last'.outcome)) =>
            LET f == last'.filename
                before == IF f \in DOMAIN files THEN files[f] ELSE <<>>
            IN /\ DOMAIN files' = DOMAIN files \cup {f}
               /\ files'[f] = before \o C6_Block(source_description(last'.location),
                                                 last'.text)
               /\ \A g \in DOMAIN files \ {f} : files'[g] = files[g]]_vars

\* inline.csslog after two successful calls: what it held, then the two
\* records in call order
C6_Witness ==
    \E css1, css2 \in Texts \ {<<>>} :
        /\ css1 # css2
        /\ last.text = css2
        /\ files[log_filename(NoLocation)] =
              <<120>> \o C6_Block(source_description(NoLocation), css1)
                      \o C6_Block(source_description(NoLocation), css2)

(* C7: logging never influences parsing.  Two stylesheet parses of the     *)
(* same context, text, location and media query list, on which the parser  *)
(* answers the same, construct the same parser, invoke the same operation  *)
(* and return the same sheet, however their logging went; and no           *)
(* stylesheet parse is aborted by its logging.                             *)
C7_LoggingDoesNotInfluence ==
    [][(IsCall /\ last'.entry = "parse_css_stylesheet") =>
          /\ last'.status = "returned"
          /\ (last.entry = "parse_css_stylesheet" /\ Key(last) = Key(last')) =>
                /\ last'.created = last.created
                /\ last'.ops = last.ops
                /\ last'.result = last.result
                /\ last'.status = last.status]_vars

\* the second of two parses of the same input, logged with a failure where
\* the first one's logging went differently
C7_Witness ==
    /\ paired
    /\ last.entry = "parse_css_stylesheet"
    /\ ~Succeeded(last.text, source_description(last.location), last.outcome)
    /\ last.status = "returned"

(* C8: in parse_selector_for_nested_style_rule, when the relative-selector *)
(* parse (standard mode) yields nothing the call returns nothing and the   *)
(* adapter is never invoked; when it yields a selector list the adapter is *)
(* invoked exactly once, on that list, and its output is returned.         *)
C8_NestedSelector ==
    last.entry = "parse_selector_for_nested_style_rule" =>
        /\ Len(last.ops) = 1
        /\ last.ops[1].op = "parse_as_relative_selector"
        /\ last.ops[1].ids = <<"Standard">>
        /\ IF last.answer = None
           THEN last.result = None /\ last.adapted = <<>>
           ELSE /\ Len(last.adapted) = 1
                /\ last.adapted[1].argument = last.answer
                /\ last.result = last.adapted[1].returned

C8_Witness ==
    /\ last.entry = "parse_selector_for_nested_style_rule"
    /\ last.answer = None
    /\ last.result = None
    /\ last.adapted = <<>>

C8_WitnessAdapted ==
    /\ last.entry = "parse_selector_for_nested_style_rule"
    /\ last.answer # None
    /\ Len(last.adapted) = 1
    /\ last.result # last.answer

C9_Operation(entry) ==
    CASE entry = "parse_css_stylesheet" -> "parse_as_css_stylesheet"
      [] entry = "parse_css_property_declaration_block" ->
            "parse_as_property_declaration_block"
      [] entry = "parse_css_descriptor_declaration_block" ->
            "parse_as_descriptor_declaration_block"
      [] entry = "parse_css_value" -> "parse_as_css_value"
      [] entry = "parse_css_descriptor" -> "parse_as_descriptor_value"
      [] entry = "parse_css_rule" -> "parse_as_css_rule"
      [] entry = "parse_selector" -> "parse_as_selector"
      [] entry = "parse_selector_for_nested_style_rule" ->
            "parse_as_relative_selector"
      [] entry = "parse_page_selector_list" -> "parse_as_page_selector_list"
      [] entry = "parse_pseudo_element_selector" ->
            "parse_as_pseudo_element_selector"
      [] entry = "parse_media_query" -> "parse_as_media_query"
      [] entry = "parse_media_query_list" -> "parse_as_media_query_list"
      [] entry = "parse_css_supports" -> "parse_as_supports"

\* one parser over the call's own (context, text), one operation of the
\* entry point's mode invoked on it
C9_OneParserOneOperation(call) ==
    /\ call.created = <<[context |-> call.context, text |-> call.text]>>
    /\ Len(call.ops) = 1
    /\ call.ops[1].op = C9_Operation(call.entry)

(* C9 as stated: for non-empty text every entry point constructs one       *)
(* parser over (context, text), invokes one parse operation and returns    *)
(* that operation's result unchanged.                                      *)
C9_ResultUnchanged ==
    (last.entry \in ParseEntries /\ last.text # <<>>) =>
        /\ C9_OneParserOneOperation(last)
        /\ last.result = last.answer

(* C9, amended: for non-empty text every entry point constructs one parser *)
(* over the call's (context, text) and invokes one parse operation on it;  *)
(* it returns the operation's result unchanged, except that                *)
(* parse_css_stylesheet first sets the returned sheet's source text to the *)
(* input and parse_selector_for_nested_style_rule returns what the adapter *)
(* makes of a selector list.                                               *)
C9_OneParserPerCall ==
    (last.entry \in ParseEntries /\ last.text # <<>>) =>
        /\ C9_OneParserOneOperation(last)
        /\ last.status = "returned"
        /\ CASE last.entry = "parse_css_stylesheet" ->
                   /\ last.result.kind = "sheet"
                   /\ last.result.realm = last.answer.realm
                   /\ last.result.rules = last.answer.rules
                   /\ last.result.media = last.answer.media
                   /\ last.result.location = last.answer.location
                   /\ last.result.source_text = last.text
             [] last.entry = "parse_selector_for_nested_style_rule" ->
                   IF last.answer = None THEN last.result = None
                   ELSE last.result = last.adapted[1].returned
             [] OTHER -> last.result = last.answer

\* a second call in a row, with a parser of its own
C9_Witness ==
    /\ calls = 2
    /\ last.entry = "parse_media_query_list"
    /\ last.text = <<195, 169>>
    /\ last.created = <<[context |-> last.context, text |-> <<195, 169>>]>>
    /\ last.result = Vector(<<"media query">>)

\* the location http://a/b:c?d
C10_Location(call) ==
    /\ call.logged
    /\ call.location.has_value
    /\ url_to_string(call.location.url) = <<104, 116, 116, 112, 58, 47, 47, 97, 47, 98, 58, 99, 63, 100>>

(* C10 as stated: the log file derived for http://a/b:c?d is               *)
(* http://a_b_c_d.csslog.                                                  *)
C10_KeepsSchemeSeparator ==
    C10_Location(last) =>
        last.filename = <<104, 116, 116, 112, 58, 47, 47, 97, 95, 98, 95, 99, 95, 100, 46, 99, 115, 115, 108, 111, 103>>

(* C10, amended: every '/', ':' and '?' of http://a/b:c?d is replaced,     *)
(* those of "://" too: the sanitized name is http___a_b_c_d and the log    *)
(* file is http___a_b_c_d.csslog.                                          *)
C10_SanitizedFilename ==
    C10_Location(last) =>
        /\ last.filename = <<104, 116, 116, 112, 95, 95, 95, 97, 95, 98, 95, 99, 95, 100, 46, 99, 115, 115, 108, 111, 103>>
        /\ last.outcome.open => last.filename \in DOMAIN files

C10_Witness ==
    /\ C10_Location(last)
    /\ last.outcome.open
    /\ last.filename \in DOMAIN files

====
